---- MODULE Spec2Model ----
(***************************************************************************)
(* Model of app/routes/_index.tsx: the promise-stream producer            *)
(* (createPromiseStream, driven by the generator of action) and the        *)
(* consumer hook (usePromiseStream).                                       *)
(*                                                                         *)
(* One step of the model is one run-to-completion job of the JavaScript    *)
(* event loop: the code between two suspension points (await, yield to     *)
(* the for-await loop, a timer).  The chain reaches a component through    *)
(* the transport, so the continuation of a walk runs some time after the   *)
(* promise it awaits has settled in the producer, other jobs in between.   *)
(* A promise of chain ch is the index k of handles[ch]; a component is     *)
(* given the outcome of the first one, as fetcher.data.  The request of    *)
(* action is its form: each field a sequence of characters, or missing.    *)
(***************************************************************************)
EXTENDS Integers, Sequences, FiniteSets, TLC

\* ------------------------------------------------------------------ bounds
MaxWords == 5
NumChains == 2
NumConsumers == 2
MaxWalks == 2
MaxFieldLen == 3

Chains == 1..NumChains
Consumers == 1..NumConsumers

\* --------------------------------------------------------- program constants
DefaultWords == 10
DefaultDelay == 400
FailIndex == 4
ErrorAt5thWord == "Error at 5th word"

VARIABLES
    formData,      \* formData[ch]: the form fields of the request of action
    delay,         \* delay[ch]: the delay of the generator's timer
    task,          \* task[ch]: the async function of createPromiseStream
    gen,           \* gen[ch]: the async generator made by the factory
    deferred,      \* deferred[ch]: index of the Deferred the task holds
    handles,       \* handles[ch][k]: outcome of the k-th promise of the chain
    resolves,      \* resolves[ch][k]: number of resolve() calls on it
    runs,          \* runs[ch]: number of calls of the factory
    component,     \* component[c]: "unmounted" or "mounted"
    promiseStream, \* promiseStream[c]: the argument of usePromiseStream
    effectDep,     \* effectDep[c]: the argument the last effect ran with
    streamState,   \* streamState[c]: the React state of the hook
    walks,         \* walks[c]: the suspended async walks of the effects of c
    cancelled      \* cancelled[c]: a cleanup has aborted a suspended walk

prodVars == <<formData, delay, task, gen, deferred, handles, resolves, runs>>
consVars == <<component, promiseStream, effectDep, streamState, walks,
              cancelled>>
vars == <<formData, delay, task, gen, deferred, handles, resolves, runs,
          component, promiseStream, effectDep, streamState, walks, cancelled>>

\* ------------------------------------------------------------------ values
Digit(d) ==
    CASE d = 0 -> "0" [] d = 1 -> "1" [] d = 2 -> "2" [] d = 3 -> "3"
      [] d = 4 -> "4" [] d = 5 -> "5" [] d = 6 -> "6" [] d = 7 -> "7"
      [] d = 8 -> "8" [] OTHER -> "9"

RECURSIVE String(_)
String(n) == IF n < 10 THEN Digit(n) ELSE String(n \div 10) \o Digit(n % 10)

\* The outcomes of a promise of the chain.
Pending == [type |-> "pending"]
Undefined == [type |-> "undefined"]
ValueLink(v, n) == [type |-> "value", value |-> v, next |-> n]
ErrorLink(e) == [type |-> "error", error |-> e]

NoError == "none"
NoGen == [st |-> "none", words |-> 0, throwError |-> FALSE, failAt |-> 0,
          error |-> NoError, i |-> 0]

\* References to links, as the hook's argument: no data, or the head of a chain.
Undef == [chain |-> 0, h |-> 0]
NoEffect == [chain |-> -1, h |-> 0]
HeadOf(ch) == [chain |-> ch, h |-> 1]

\* --------------------------------------------------------------- Deferred
NewDeferred(hs) == Append(hs, Pending)

Resolve(hs, k, v) == IF hs[k].type = "pending" THEN [hs EXCEPT ![k] = v] ELSE hs

\* ------------------------------------------------------------- form fields
\* A field of the form is a sequence of characters, or is missing (get
\* returns null).
Null == [present |-> FALSE, text |-> <<>>]
Field(text) == [present |-> TRUE, text |-> text]

\* formData.get(name) ?? default
GetOr(field, default) == IF field.present THEN field.text ELSE default

\* A number: an integer or NaN.
NaN == [nan |-> TRUE, val |-> 0]
Num(n) == [nan |-> FALSE, val |-> n]

WhiteSpace == {" "}

DigitValue ==
    ("0" :> 0) @@ ("1" :> 1) @@ ("2" :> 2) @@ ("3" :> 3) @@ ("4" :> 4) @@
    ("5" :> 5) @@ ("6" :> 6) @@ ("7" :> 7) @@ ("8" :> 8) @@ ("9" :> 9) @@
    ("a" :> 10) @@ ("b" :> 11) @@ ("c" :> 12) @@ ("d" :> 13) @@ ("e" :> 14) @@
    ("f" :> 15)

IsDigitIn(c, radix) == c \in DOMAIN DigitValue /\ DigitValue[c] < radix

RECURSIVE TrimStart(_)
TrimStart(s) ==
    IF s # <<>> /\ Head(s) \in WhiteSpace THEN TrimStart(Tail(s)) ELSE s

\* The value of the longest prefix of s made of digits of the radix.
RECURSIVE ParseDigits(_, _, _)
ParseDigits(s, radix, acc) ==
    IF s # <<>> /\ IsDigitIn(Head(s), radix)
      THEN ParseDigits(Tail(s), radix, acc * radix + DigitValue[Head(s)])
      ELSE acc

\* Number.parseInt(text), without a radix: leading white space is skipped, a
\* sign is taken, a 0x prefix selects radix 16, and the digits up to the first
\* character that is not one are the value; NaN without a digit.
parseInt(text) ==
    LET trimmed == TrimStart(text)
        negative == trimmed # <<>> /\ Head(trimmed) = "-"
        unsigned == IF trimmed # <<>> /\ Head(trimmed) \in {"+", "-"}
                      THEN Tail(trimmed) ELSE trimmed
        hex == Len(unsigned) >= 2 /\ unsigned[1] = "0" /\ unsigned[2] = "x"
        digits == IF hex THEN SubSeq(unsigned, 3, Len(unsigned)) ELSE unsigned
        radix == IF hex THEN 16 ELSE 10
    IN IF digits # <<>> /\ IsDigitIn(Head(digits), radix)
         THEN Num((IF negative THEN -1 ELSE 1) * ParseDigits(digits, radix, 0))
         ELSE NaN

\* Number.isSafeInteger(x): the numbers parsed from a field of at most
\* MaxFieldLen characters are integers far below 2^53.
isSafeInteger(x) == ~x.nan

\* ---------------------------------------------------------------- producer
Normalise(x, default) == IF isSafeInteger(x) /\ x.val > 0 THEN x.val ELSE default

\* The generator's body up to its next suspension, entered at the loop test.
GenLoopTest(g) == [g EXCEPT !.st = IF g.i < g.words THEN "timer" ELSE "returned"]

\* Faulty variant: the factory is called before the try block, and a throw of
\* the factory leaves the first promise unsettled.
createPromiseStreamCallsFactoryFirst(ch, factory) ==
    /\ task[ch] = "unstarted"
    /\ runs' = [runs EXCEPT ![ch] = @ + 1]
    /\ deferred' = [deferred EXCEPT ![ch] = 1]
    /\ resolves' = [resolves EXCEPT ![ch] = <<0>>]
    /\ handles' = [handles EXCEPT ![ch] = NewDeferred(<<>>)]
    /\ IF factory.throws
         THEN /\ task' = [task EXCEPT ![ch] = "finished"]
              /\ gen' = gen
         ELSE /\ task' = [task EXCEPT ![ch] = "awaiting"]
              /\ gen' = [gen EXCEPT ![ch] = GenLoopTest(
                    [st |-> "none", words |-> factory.words,
                     throwError |-> factory.throwError,
                     failAt |-> factory.failAt, error |-> factory.error,
                     i |-> 0])]

createPromiseStream(ch, factory) ==
    /\ task[ch] = "unstarted"
    /\ runs' = [runs EXCEPT ![ch] = @ + 1]
    /\ deferred' = [deferred EXCEPT ![ch] = 1]
    /\ resolves' = [resolves EXCEPT ![ch] = IF factory.throws THEN <<1>> ELSE <<0>>]
    /\ IF factory.throws
         THEN /\ handles' = [handles EXCEPT
                    ![ch] = Resolve(NewDeferred(<<>>), 1, ErrorLink(factory.error))]
              /\ task' = [task EXCEPT ![ch] = "finished"]
              /\ gen' = gen
         ELSE /\ handles' = [handles EXCEPT ![ch] = NewDeferred(<<>>)]
              /\ task' = [task EXCEPT ![ch] = "awaiting"]
              /\ gen' = [gen EXCEPT ![ch] = GenLoopTest(
                    [st |-> "none", words |-> factory.words,
                     throwError |-> factory.throwError,
                     failAt |-> factory.failAt, error |-> factory.error,
                     i |-> 0])]

\* The generator function that action passes to createPromiseStream.
ActionFactory(words, throwError) ==
    [words |-> words, throwError |-> throwError,
     failAt |-> FailIndex, throws |-> FALSE, error |-> ErrorAt5thWord]

action(ch, form) ==
    LET words == parseInt(GetOr(form.words, <<"1", "0">>))
        delayIn == parseInt(GetOr(form.delay, <<"4", "0", "0">>))
        throwError == form.throwError = Field(<<"o", "n">>)
    IN /\ createPromiseStream(ch,
             ActionFactory(Normalise(words, DefaultWords), throwError))
       /\ formData' = [formData EXCEPT ![ch] = form]
       /\ delay' = [delay EXCEPT ![ch] = Normalise(delayIn, DefaultDelay)]
       /\ UNCHANGED consVars

\* The form the page posts: a number of words, no delay field, and the
\* checkbox, which is sent as "on" when checked and not sent otherwise.
RECURSIVE Decimal(_)
Decimal(n) == IF n < 10 THEN <<Digit(n)>> ELSE Append(Decimal(n \div 10), Digit(n % 10))

Form(w, t) ==
    [words |-> Field(Decimal(w)), delay |-> Null,
     throwError |-> IF t THEN Field(<<"o", "n">>) ELSE Null]

\* createPromiseStream on any factory of its parameter's type: a generator of
\* the same shape that yields, returns or throws anywhere, or a factory that
\* throws when called.
Factories ==
    {[words |-> w, throwError |-> t, failAt |-> f, throws |-> x, error |-> "thrown"] :
        w \in 0..MaxWords, t \in BOOLEAN, f \in 0..MaxWords, x \in BOOLEAN}

call(ch, factory) ==
    /\ factory.throwError => factory.failAt < factory.words
    /\ ~factory.throwError => factory.failAt = 0
    /\ factory.throws => factory.words = 0 /\ ~factory.throwError
    /\ createPromiseStream(ch, factory)
    /\ UNCHANGED <<formData, delay>>
    /\ UNCHANGED consVars

\* Faulty variants of the generator's test: the wrong index.
ThrowsOneLate(g) == g.throwError /\ g.i = g.failAt + 1

ThrowsOneEarly(g) == g.throwError /\ g.i + 1 = g.failAt

\* The test of the generator before a yield.
Throws(g) == g.throwError /\ g.i = g.failAt

\* Faulty variant: the index itself is yielded.
YieldedFromZero(g) == String(g.i)

\* The value the generator yields.

Yielded(g) == String(g.i + 1)

\* Faulty variant: a pull-driven producer, whose generator goes on only while
\* a walk awaits the promise the task holds.
TimerFiresWhenAwaited(ch) ==
    /\ gen[ch].st = "timer"
    /\ \E c \in Consumers : \E k \in DOMAIN walks[c] :
          walks[c][k].chain = ch /\ walks[c][k].h = deferred[ch]
    /\ gen' = [gen EXCEPT ![ch].st =
          IF Throws(gen[ch]) THEN "thrown" ELSE "yielded"]
    /\ UNCHANGED <<formData, delay, task, deferred, handles, resolves, runs>>
    /\ UNCHANGED consVars

\* The timer of the generator fires: it throws or yields String(i + 1).
TimerFires(ch) ==
    /\ gen[ch].st = "timer"
    /\ gen' = [gen EXCEPT ![ch].st =
          IF Throws(gen[ch]) THEN "thrown" ELSE "yielded"]
    /\ UNCHANGED <<formData, delay, task, deferred, handles, resolves, runs>>
    /\ UNCHANGED consVars

\* Faulty variant: deferred = next is left out.
LoopBodySameDeferred(ch) ==
    /\ gen[ch].st = "yielded"
    /\ LET d == deferred[ch]
           withNext == NewDeferred(handles[ch])
           next == Len(withNext)
       IN /\ handles' = [handles EXCEPT ![ch] =
                Resolve(withNext, d, ValueLink(Yielded(gen[ch]), next))]
          /\ resolves' = [resolves EXCEPT ![ch] = [Append(@, 0) EXCEPT ![d] = @ + 1]]
          /\ deferred' = deferred
    /\ gen' = [gen EXCEPT ![ch] = GenLoopTest([gen[ch] EXCEPT !.i = @ + 1])]
    /\ task' = task

\* The body of the for-await loop on a yielded value; the generator then runs
\* on to its next suspension.
LoopBody(ch) ==
    /\ gen[ch].st = "yielded"
    /\ LET d == deferred[ch]
           withNext == NewDeferred(handles[ch])
           next == Len(withNext)
       IN /\ handles' = [handles EXCEPT ![ch] =
                Resolve(withNext, d, ValueLink(Yielded(gen[ch]), next))]
          /\ resolves' = [resolves EXCEPT ![ch] = [Append(@, 0) EXCEPT ![d] = @ + 1]]
          /\ deferred' = [deferred EXCEPT ![ch] = next]
    /\ gen' = [gen EXCEPT ![ch] = GenLoopTest([gen[ch] EXCEPT !.i = @ + 1])]
    /\ task' = task

\* Faulty variant: deferred.resolve(undefined) is left out.
LoopExitWithoutResolve(ch) ==
    /\ gen[ch].st = "returned"
    /\ handles' = handles
    /\ resolves' = resolves
    /\ task' = [task EXCEPT ![ch] = "finished"]
    /\ gen' = [gen EXCEPT ![ch].st = "done"]
    /\ deferred' = deferred

\* The generator has returned: the loop ends and undefined is resolved.
LoopExit(ch) ==
    /\ gen[ch].st = "returned"
    /\ handles' = [handles EXCEPT ![ch] = Resolve(@, deferred[ch], Undefined)]
    /\ resolves' = [resolves EXCEPT ![ch][deferred[ch]] = @ + 1]
    /\ task' = [task EXCEPT ![ch] = "finished"]
    /\ gen' = [gen EXCEPT ![ch].st = "done"]
    /\ deferred' = deferred

\* Faulty variant: a chain that does not keep its history, the error link
\* taking the place of the head as well.
CatchDropsHistory(ch) ==
    /\ gen[ch].st = "thrown"
    /\ handles' = [handles EXCEPT ![ch] =
          [Resolve(@, deferred[ch], ErrorLink(gen[ch].error))
              EXCEPT ![1] = ErrorLink(gen[ch].error)]]
    /\ resolves' = [resolves EXCEPT ![ch][deferred[ch]] = @ + 1]
    /\ task' = [task EXCEPT ![ch] = "finished"]
    /\ gen' = [gen EXCEPT ![ch].st = "done"]
    /\ deferred' = deferred

\* The generator has thrown: the catch clause resolves an error link.
Catch(ch) ==
    /\ gen[ch].st = "thrown"
    /\ handles' = [handles EXCEPT ![ch] =
          Resolve(@, deferred[ch], ErrorLink(gen[ch].error))]
    /\ resolves' = [resolves EXCEPT ![ch][deferred[ch]] = @ + 1]
    /\ task' = [task EXCEPT ![ch] = "finished"]
    /\ gen' = [gen EXCEPT ![ch].st = "done"]
    /\ deferred' = deferred

\* The for-await loop of the task takes the generator's result.
ForAwait(ch) ==
    /\ task[ch] = "awaiting"
    /\ LoopBody(ch) \/ LoopExit(ch) \/ Catch(ch)
    /\ UNCHANGED <<formData, delay, runs>>
    /\ UNCHANGED consVars

\* ---------------------------------------------------------------- consumer
Link(ref) == IF ref.chain \in Chains THEN handles[ref.chain][ref.h] ELSE Undefined

HasNext(link) == link.next # 0

\* Faulty variant: the error case is left out, and an error link, which has
\* no next, is taken for a last value.
streamStateFromPromiseStreamNoErrorCase(link) ==
    IF link.type = "undefined"
      THEN [state |-> "idle", chunks |-> <<>>, error |-> NoError]
    ELSE IF link.type = "error"
      THEN [state |-> "done", chunks |-> <<>>, error |-> NoError]
    ELSE IF link.next # 0
      THEN [state |-> "streaming", chunks |-> <<>>, error |-> NoError]
    ELSE [state |-> "done", chunks |-> <<>>, error |-> NoError]

streamStateFromPromiseStream(link) ==
    IF link.type = "undefined"
      THEN [state |-> "idle", chunks |-> <<>>, error |-> NoError]
    ELSE IF link.type = "error"
      THEN [state |-> "error", chunks |-> <<>>, error |-> link.error]
    ELSE IF HasNext(link)
      THEN [state |-> "streaming", chunks |-> <<>>, error |-> NoError]
    ELSE [state |-> "done", chunks |-> <<>>, error |-> NoError]

\* Faulty variant: the error case takes the state of
\* streamStateFromPromiseStream, which holds no chunks.
WalkLinkErrorDropsChunks(S, link) ==
    IF link.type = "error"
      THEN [ss |-> [state |-> "error", chunks |-> <<>>, error |-> link.error],
            await |-> 0]
      ELSE [ss |-> [state |-> IF link.next # 0 THEN "streaming" ELSE "done",
                    chunks |-> Append(S.chunks, link.value), error |-> NoError],
            await |-> link.next]

\* Faulty variant: the error case spreads the state and leaves the cause out.
WalkLinkErrorWithoutCause(S, link) ==
    IF link.type = "error"
      THEN [ss |-> [S EXCEPT !.state = "error"], await |-> 0]
      ELSE [ss |-> [state |-> IF link.next # 0 THEN "streaming" ELSE "done",
                    chunks |-> Append(S.chunks, link.value), error |-> NoError],
            await |-> link.next]

\* One turn of the switch of the walk on a link: the new state and the
\* promise the walk then awaits (0: the walk returned).
WalkLink(S, link) ==
    IF link.type = "error"
      THEN [ss |-> [state |-> "error", chunks |-> S.chunks, error |-> link.error],
            await |-> 0]
      ELSE [ss |-> [state |-> IF HasNext(link) THEN "streaming" ELSE "done",
                    chunks |-> Append(S.chunks, link.value), error |-> NoError],
            await |-> link.next]

\* The cleanup of an effect: aborted = true.
Cleanup(ws) == [k \in DOMAIN ws |-> [ws[k] EXCEPT !.aborted = TRUE]]

Live(ws) == \E k \in DOMAIN ws : ~ws[k].aborted

Without(ws, k) == SubSeq(ws, 1, k - 1) \o SubSeq(ws, k + 1, Len(ws))

\* What the component can be given: no data, or the settled head of a chain
\* (which is undefined, as no data is, when the chain has no item).
Props == {Undef} \cup
    {HeadOf(ch) : ch \in {x \in Chains : task[x] # "unstarted"
                           /\ handles[x][1].type # "pending"}}

Mount(c, ps) ==
    /\ component[c] = "unmounted"
    /\ ps \in Props
    /\ component' = [component EXCEPT ![c] = "mounted"]
    /\ promiseStream' = [promiseStream EXCEPT ![c] = ps]
    /\ streamState' = [streamState EXCEPT ![c] = streamStateFromPromiseStream(Link(ps))]
    /\ UNCHANGED <<effectDep, walks, cancelled>>
    /\ UNCHANGED prodVars

Render(c, ps) ==
    /\ component[c] = "mounted"
    /\ Len(walks[c]) < MaxWalks
    /\ ps \in Props
    /\ ps # promiseStream[c]
    /\ promiseStream' = [promiseStream EXCEPT ![c] = ps]
    /\ UNCHANGED <<component, effectDep, streamState, walks, cancelled>>
    /\ UNCHANGED prodVars

\* Faulty variant: one aborted flag shared by all the components.
RunEffectSharedAbort(c) ==
    /\ component[c] = "mounted"
    /\ effectDep[c] # promiseStream[c]
    /\ LET link == Link(promiseStream[c])
           S0 == streamStateFromPromiseStream(link)
           old == [x \in Consumers |-> Cleanup(walks[x])]
           r == WalkLink(S0, link)
       IN IF link.type = "undefined"
            THEN /\ streamState' = [streamState EXCEPT ![c] = S0]
                 /\ walks' = old
            ELSE /\ streamState' = [streamState EXCEPT ![c] = r.ss]
                 /\ walks' = [old EXCEPT ![c] =
                       IF r.await = 0 THEN @
                       ELSE Append(@, [chain |-> promiseStream[c].chain,
                                       h |-> r.await, aborted |-> FALSE])]
    /\ effectDep' = [effectDep EXCEPT ![c] = promiseStream[c]]
    /\ cancelled' = [cancelled EXCEPT ![c] = @ \/ Live(walks[c])]
    /\ UNCHANGED <<component, promiseStream>>
    /\ UNCHANGED prodVars

\* Faulty variant: the cleanup also stops the generator of the chain the
\* component was given, as an abort signal handed to the producer would.
RunEffectStopsProducer(c) ==
    /\ component[c] = "mounted"
    /\ effectDep[c] # promiseStream[c]
    /\ LET link == Link(promiseStream[c])
           S0 == streamStateFromPromiseStream(link)
           old == Cleanup(walks[c])
           r == WalkLink(S0, link)
       IN IF link.type = "undefined"
            THEN /\ streamState' = [streamState EXCEPT ![c] = S0]
                 /\ walks' = [walks EXCEPT ![c] = old]
            ELSE /\ streamState' = [streamState EXCEPT ![c] = r.ss]
                 /\ walks' = [walks EXCEPT ![c] =
                       IF r.await = 0 THEN old
                       ELSE Append(old, [chain |-> promiseStream[c].chain,
                                         h |-> r.await, aborted |-> FALSE])]
    /\ effectDep' = [effectDep EXCEPT ![c] = promiseStream[c]]
    /\ cancelled' = [cancelled EXCEPT ![c] = @ \/ Live(walks[c])]
    /\ gen' = [ch \in Chains |->
          IF Live(walks[c]) /\ effectDep[c] = HeadOf(ch) /\ gen[ch].st = "timer"
            THEN [gen[ch] EXCEPT !.st = "returned"] ELSE gen[ch]]
    /\ UNCHANGED <<component, promiseStream>>
    /\ UNCHANGED <<formData, delay, task, deferred, handles, resolves, runs>>

\* The effect of usePromiseStream: the previous effect's cleanup, the reset of
\* the state, and the walk up to its first await.
RunEffect(c) ==
    /\ component[c] = "mounted"
    /\ effectDep[c] # promiseStream[c]
    /\ LET link == Link(promiseStream[c])
           S0 == streamStateFromPromiseStream(link)
           old == Cleanup(walks[c])
           r == WalkLink(S0, link)
       IN IF link.type = "undefined"
            THEN /\ streamState' = [streamState EXCEPT ![c] = S0]
                 /\ walks' = [walks EXCEPT ![c] = old]
            ELSE /\ streamState' = [streamState EXCEPT ![c] = r.ss]
                 /\ walks' = [walks EXCEPT ![c] =
                       IF r.await = 0 THEN old
                       ELSE Append(old, [chain |-> promiseStream[c].chain,
                                         h |-> r.await, aborted |-> FALSE])]
    /\ effectDep' = [effectDep EXCEPT ![c] = promiseStream[c]]
    /\ cancelled' = [cancelled EXCEPT ![c] = @ \/ Live(walks[c])]
    /\ UNCHANGED <<component, promiseStream>>
    /\ UNCHANGED prodVars

\* Faulty variant: the loop does not test aborted.
ResumeNoAbortCheck(c, k) ==
    /\ k \in DOMAIN walks[c]
    /\ LET w == walks[c][k]
           link == handles[w.chain][w.h]
           S == streamState[c]
           r == WalkLink(S, link)
       IN /\ link.type # "pending"
          /\ IF link.type = "undefined"
               THEN /\ streamState' = [streamState EXCEPT ![c].state = "done"]
                    /\ walks' = [walks EXCEPT ![c] = Without(@, k)]
             ELSE /\ streamState' = [streamState EXCEPT ![c] = r.ss]
                  /\ walks' = [walks EXCEPT ![c] =
                        IF r.await = 0 THEN Without(@, k)
                        ELSE [@ EXCEPT ![k].h = r.await]]
    /\ UNCHANGED <<component, promiseStream, effectDep, cancelled>>
    /\ UNCHANGED prodVars

\* Faulty variant: aborted is tested in the value case only, and an aborted
\* walk that reads an error link reports it.
ResumeErrorBeforeAbortCheck(c, k) ==
    /\ k \in DOMAIN walks[c]
    /\ LET w == walks[c][k]
           link == handles[w.chain][w.h]
           S == streamState[c]
           r == WalkLink(S, link)
       IN /\ link.type # "pending"
          /\ IF link.type = "undefined"
               THEN /\ streamState' = [streamState EXCEPT ![c].state = "done"]
                    /\ walks' = [walks EXCEPT ![c] = Without(@, k)]
             ELSE IF w.aborted /\ link.type = "value"
               THEN /\ streamState' = streamState
                    /\ walks' = [walks EXCEPT ![c] = Without(@, k)]
             ELSE /\ streamState' = [streamState EXCEPT ![c] = r.ss]
                  /\ walks' = [walks EXCEPT ![c] =
                        IF r.await = 0 THEN Without(@, k)
                        ELSE [@ EXCEPT ![k].h = r.await]]
    /\ UNCHANGED <<component, promiseStream, effectDep, cancelled>>
    /\ UNCHANGED prodVars

\* Faulty variant: on undefined the state is replaced, not spread.
ResumeDoneDropsChunks(c, k) ==
    /\ k \in DOMAIN walks[c]
    /\ LET w == walks[c][k]
           link == handles[w.chain][w.h]
           S == streamState[c]
           r == WalkLink(S, link)
       IN /\ link.type # "pending"
          /\ IF link.type = "undefined"
               THEN /\ streamState' = [streamState EXCEPT ![c] =
                          [state |-> "done", chunks |-> <<>>, error |-> NoError]]
                    /\ walks' = [walks EXCEPT ![c] = Without(@, k)]
             ELSE IF w.aborted
               THEN /\ streamState' = streamState
                    /\ walks' = [walks EXCEPT ![c] = Without(@, k)]
             ELSE /\ streamState' = [streamState EXCEPT ![c] = r.ss]
                  /\ walks' = [walks EXCEPT ![c] =
                        IF r.await = 0 THEN Without(@, k)
                        ELSE [@ EXCEPT ![k].h = r.await]]
    /\ UNCHANGED <<component, promiseStream, effectDep, cancelled>>
    /\ UNCHANGED prodVars

\* The promise a walk awaits has settled: the walk resumes after its await.
\* An undefined outcome is handled before the loop tests aborted again.
Resume(c, k) ==
    /\ k \in DOMAIN walks[c]
    /\ LET w == walks[c][k]
           link == handles[w.chain][w.h]
           S == streamState[c]
           r == WalkLink(S, link)
       IN /\ link.type # "pending"
          /\ IF link.type = "undefined"
               THEN /\ streamState' = [streamState EXCEPT ![c].state = "done"]
                    /\ walks' = [walks EXCEPT ![c] = Without(@, k)]
             ELSE IF w.aborted
               THEN /\ streamState' = streamState
                    /\ walks' = [walks EXCEPT ![c] = Without(@, k)]
             ELSE /\ streamState' = [streamState EXCEPT ![c] = r.ss]
                  /\ walks' = [walks EXCEPT ![c] =
                        IF r.await = 0 THEN Without(@, k)
                        ELSE [@ EXCEPT ![k].h = r.await]]
    /\ UNCHANGED <<component, promiseStream, effectDep, cancelled>>
    /\ UNCHANGED prodVars

\* ----------------------------------------------------------- specification
NoForm == [words |-> Null, delay |-> Null, throwError |-> Null]

Init ==
    /\ formData = [ch \in Chains |-> NoForm]
    /\ delay = [ch \in Chains |-> 0]
    /\ task = [ch \in Chains |-> "unstarted"]
    /\ gen = [ch \in Chains |-> NoGen]
    /\ deferred = [ch \in Chains |-> 0]
    /\ handles = [ch \in Chains |-> <<>>]
    /\ resolves = [ch \in Chains |-> <<>>]
    /\ runs = [ch \in Chains |-> 0]
    /\ component = [c \in Consumers |-> "unmounted"]
    /\ promiseStream = [c \in Consumers |-> Undef]
    /\ effectDep = [c \in Consumers |-> NoEffect]
    /\ streamState = [c \in Consumers |->
          [state |-> "idle", chunks |-> <<>>, error |-> NoError]]
    /\ walks = [c \in Consumers |-> <<>>]
    /\ cancelled = [c \in Consumers |-> FALSE]

\* The forms of the page with a number of words.
PageForms == {Form(w, t) : w \in 1..MaxWords, t \in BOOLEAN}

\* Forms whose words field is missing or not positive.
DefaultedForms ==
    {[words |-> f, delay |-> Null,
      throwError |-> IF t THEN Field(<<"o", "n">>) ELSE Null] :
        f \in {Null, Field(<<"0">>), Field(<<"-", "5">>)}, t \in BOOLEAN}

\* Any request: the characters a field is made of, the fields of at most
\* MaxFieldLen characters, and the forms with one of the two numbers given by
\* such a field and the other missing.
FieldChars == {"0", "1", "2", "-", "+", ".", " ", "x", "a"}

Fields(maxLen) ==
    {Null} \cup
    {Field(text) : text \in UNION {[1..n -> FieldChars] : n \in 0..maxLen}}

ThrowErrorFields == {Null, Field(<<"o", "n">>), Field(<<"1">>)}

AnyForms(maxLen) ==
    {[words |-> f, delay |-> Null, throwError |-> t] :
        f \in Fields(maxLen), t \in ThrowErrorFields}
    \cup
    {[words |-> Null, delay |-> f, throwError |-> t] :
        f \in Fields(maxLen), t \in ThrowErrorFields}

\* FO: the forms that may be posted; CH: the chains that may be started; CO:
\* the components that may be mounted; RE: the components whose argument may
\* change after the mount.
NextFor(FO, CH, CO, RE) ==
    \/ \E ch \in CH, form \in FO : action(ch, form)
    \/ \E ch \in CH : TimerFires(ch)
    \/ \E ch \in CH : ForAwait(ch)
    \/ \E c \in CO, ps \in Props : Mount(c, ps)
    \/ \E c \in RE, ps \in Props : Render(c, ps)
    \/ \E c \in CO : RunEffect(c)
    \/ \E c \in CO, k \in 1..MaxWalks : Resume(c, k)

NextOn(CH, CO, RE) == NextFor(PageForms, CH, CO, RE)

\* One production run, one component.
Next == NextOn({1}, {1}, {1})

Spec == Init /\ [][Next]_vars

\* One production run, several components whose arguments all change at will.
NextShared == NextOn({1}, Consumers, Consumers)

SpecShared == Init /\ [][NextShared]_vars

\* One production run, several components: the argument of component 1
\* changes at will, the others keep the argument they are mounted with.
NextSeveral == NextOn({1}, Consumers, {1})

SpecSeveral == Init /\ [][NextSeveral]_vars

\* Several production runs, one component.
NextReattach == NextOn(Chains, {1}, {1})

SpecReattach == Init /\ [][NextReattach]_vars

\* One run of createPromiseStream on any factory, one component.
NextGeneric == Next \/ \E f \in Factories : call(1, f)

SpecGeneric == Init /\ [][NextGeneric]_vars

\* One run, started by action on a form with or without a usable words field
\* or by createPromiseStream on any factory, and one component.
NextAnyRun ==
    \/ NextFor(PageForms \cup DefaultedForms, {1}, {1}, {1})
    \/ \E f \in Factories : call(1, f)

SpecAnyRun == Init /\ [][NextAnyRun]_vars

\* One run on any form of the page or any factory, and one component that is
\* mounted without data or on the head and, once given the head, keeps it.
NextAttach ==
    \/ \E form \in PageForms : action(1, form)
    \/ \E f \in Factories : call(1, f)
    \/ TimerFires(1)
    \/ ForAwait(1)
    \/ \E ps \in Props : Mount(1, ps)
    \/ Render(1, HeadOf(1))
    \/ RunEffect(1)
    \/ \E k \in 1..MaxWalks : Resume(1, k)

\* The server alone: action on any request, and the production it starts.
NextRequest ==
    \/ task[1] = "unstarted" /\ \E form \in AnyForms(MaxFieldLen) : action(1, form)
    \/ TimerFires(1)
    \/ ForAwait(1)

SpecRequest == Init /\ [][NextRequest]_vars

\* Replay: component 1 is mounted before the production starts and is given
\* the head once it has settled; component 2 is mounted on the head after the
\* task has ended.
NextReplay ==
    \/ \E w \in 1..MaxWords, t \in BOOLEAN : action(1, Form(w, t))
    \/ TimerFires(1)
    \/ ForAwait(1)
    \/ task[1] = "unstarted" /\ Mount(1, Undef)
    \/ Render(1, HeadOf(1))
    \/ task[1] = "finished" /\ Mount(2, HeadOf(1))
    \/ \E c \in {1, 2} : RunEffect(c)
    \/ \E c \in {1, 2} : Resume(c, 1)

SpecReplay == Init /\ [][NextReplay]_vars

\* The scheduling of the event loop: a timer that is set fires, and a job
\* that is queued (the continuation of an await, an effect) runs.
ProducerFairness(ch) == WF_vars(TimerFires(ch)) /\ WF_vars(ForAwait(ch))

ConsumerFairness(c) ==
    WF_vars(RunEffect(c)) /\ \A k \in 1..MaxWalks : WF_vars(Resume(c, k))

\* One production run whose steps are scheduled, and one component that may
\* never be mounted, lag for ever or be cleaned up at any time.
FairProducer == Spec /\ ProducerFairness(1)

\* One production run and two components: the argument of component 1 changes
\* at will and its jobs may lag; component 2 keeps the argument it is mounted
\* with and its jobs are scheduled.
NextIsolation == NextOn({1}, {1, 2}, {1})

FairIsolation ==
    /\ Init /\ [][NextIsolation]_vars
    /\ ProducerFairness(1)
    /\ ConsumerFairness(2)

\* One run and one component that keeps the head, all jobs scheduled.
FairAttach ==
    /\ Init /\ [][NextAttach]_vars
    /\ ProducerFairness(1)
    /\ ConsumerFairness(1)

\* ------------------------------------------------------------- properties
\* The decimal strings, written out.
Numerals == <<"1", "2", "3", "4", "5", "6", "7", "8", "9", "10", "11">>

Expected(n) == SubSeq(Numerals, 1, n)

IsPrefix(s, t) == Len(s) <= Len(t) /\ s = SubSeq(t, 1, Len(s))

\* The items of a chain, read link by link from promise k on.
RECURSIVE ItemsFrom(_, _)
ItemsFrom(ch, k) ==
    IF handles[ch][k].type = "value"
      THEN <<handles[ch][k].value>> \o ItemsFrom(ch, handles[ch][k].next)
      ELSE <<>>

\* The last effect of component c ran on the head of chain ch.
Attached(c, ch) == component[c] = "mounted" /\ effectDep[c] = HeadOf(ch)

\* ... and its walk has returned.
Finished(c, ch) == Attached(c, ch) /\ ~Live(walks[c])

\* C1: with throwError = false, a consumer that was never cancelled never has
\* phase error while attached to the chain, and once its walk has returned it
\* has phase done with items "1", ..., String(words) in that order.
C1_HappyPath ==
    \A c \in Consumers, ch \in Chains :
        (Attached(c, ch) /\ ~cancelled[c] /\ ~gen[ch].throwError) =>
            /\ streamState[c].state # "error"
            /\ streamState[c].error = NoError
            /\ ~Live(walks[c]) =>
                  /\ streamState[c].state = "done"
                  /\ streamState[c].chunks = Expected(gen[ch].words)

C1_Witness ==
    \E c \in Consumers, ch \in Chains :
        /\ Finished(c, ch) /\ ~cancelled[c] /\ ~gen[ch].throwError
        /\ gen[ch].words = 5
        /\ streamState[c] =
              [state |-> "done", chunks |-> <<"1", "2", "3", "4", "5">>,
               error |-> NoError]

\* C2: with throwError = true and words >= 5, a consumer that was never
\* cancelled has, once its walk has returned, phase error with items "1".."4"
\* and the error; and no consumer attached to that chain ever holds more than
\* those four items.
C2_FailureTruncation ==
    \A c \in Consumers, ch \in Chains :
        (Attached(c, ch) /\ gen[ch].throwError /\ gen[ch].words >= 5) =>
            /\ IsPrefix(streamState[c].chunks, <<"1", "2", "3", "4">>)
            /\ (~cancelled[c] /\ ~Live(walks[c])) =>
                  streamState[c] =
                     [state |-> "error", chunks |-> <<"1", "2", "3", "4">>,
                      error |-> ErrorAt5thWord]

C2_Witness ==
    \E c \in Consumers, ch \in Chains :
        /\ Finished(c, ch) /\ ~cancelled[c]
        /\ gen[ch].throwError /\ gen[ch].words >= 5
        /\ streamState[c].state = "error"
        /\ streamState[c].chunks = <<"1", "2", "3", "4">>

\* C3: with throwError = true and words in 1..4 the chain never holds an error
\* link, its task ends by settling undefined after the last item, and a
\* consumer that was never cancelled ends with phase done and all the items.
C3_FailureEdge ==
    \A ch \in Chains :
        (task[ch] # "unstarted" /\ gen[ch].throwError /\ gen[ch].words <= 4) =>
            /\ \A k \in DOMAIN handles[ch] : handles[ch][k].type # "error"
            /\ task[ch] = "finished" =>
                  /\ handles[ch][Len(handles[ch])] = Undefined
                  /\ ItemsFrom(ch, 1) = Expected(gen[ch].words)
            /\ \A c \in Consumers :
                  (Finished(c, ch) /\ ~cancelled[c]) =>
                      streamState[c] =
                         [state |-> "done", chunks |-> Expected(gen[ch].words),
                          error |-> NoError]

C3_Witness ==
    \E c \in Consumers, ch \in Chains :
        /\ Finished(c, ch) /\ ~cancelled[c]
        /\ gen[ch].throwError /\ gen[ch].words = 4
        /\ task[ch] = "finished"
        /\ streamState[c].state = "done"
        /\ streamState[c].chunks = <<"1", "2", "3", "4">>

\* C4: a walk whose aborted flag is set changes the state of the hook no
\* more, whatever the promise it awaits settles to.
C4_AbortedWalkIsSilent ==
    [][\A c \in Consumers, k \in 1..MaxWalks :
          (k \in DOMAIN walks[c] /\ walks[c][k].aborted /\ Resume(c, k)) =>
              streamState'[c] = streamState[c]]_vars

\* C5: component 2, whose argument never changes, once mounted on the head of
\* the chain reaches the terminal phase of the chain with all its items,
\* whenever the effects of component 1 are cleaned up.
C5_Isolation ==
    (component[2] = "mounted" /\ promiseStream[2] = HeadOf(1)) ~>
        /\ Finished(2, 1) /\ task[1] = "finished"
        /\ streamState[2].state \in {"done", "error"}
        /\ streamState[2].state = "error" <=>
              handles[1][Len(handles[1])].type = "error"
        /\ streamState[2].chunks = ItemsFrom(1, 1)

C5_Witness ==
    /\ cancelled[1]
    /\ \E k \in DOMAIN walks[1] :
          walks[1][k].aborted /\ walks[1][k].chain = 1 /\ walks[1][k].h = 3
    /\ Finished(2, 1) /\ ~cancelled[2]
    /\ streamState[2] =
          [state |-> "done", chunks |-> <<"1", "2", "3", "4", "5">>,
           error |-> NoError]

\* C6: a consumer there before the first promise settled and a consumer mounted
\* after the task ended finish with the same phase, done or error, and the
\* same items, and the factory has been called once.
C6_Replay ==
    \A ch \in Chains :
        (Finished(1, ch) /\ Finished(2, ch)) =>
            /\ streamState[1] = streamState[2]
            /\ streamState[1].state \in {"done", "error"}
            /\ streamState[1].chunks = ItemsFrom(ch, 1)
            /\ runs[ch] = 1

C6_Witness ==
    /\ Finished(1, 1) /\ Finished(2, 1)
    /\ ~cancelled[1] /\ ~cancelled[2]
    /\ streamState[2] =
          [state |-> "error", chunks |-> <<"1", "2", "3", "4">>,
           error |-> ErrorAt5thWord]

\* The promises of a chain that hold undefined or an error link.
Sentinels(ch) ==
    {k \in DOMAIN handles[ch] : handles[ch][k].type \in {"undefined", "error"}}

\* C7: a started task ends, whatever the consumers do or fail to do; when it
\* has ended exactly one promise of the chain, the last, holds undefined or an
\* error link, and nothing of the chain changes any more; and a step that
\* leaves the producer's variables alone leaves its steps enabled or disabled
\* as they were.
C7_ProducerCompletes ==
    /\ \A ch \in Chains : (task[ch] = "awaiting") ~> (task[ch] = "finished")
    /\ [](\A ch \in Chains :
            IF task[ch] = "finished"
              THEN Sentinels(ch) = {Len(handles[ch])}
              ELSE Sentinels(ch) = {})
    /\ [][\A ch \in Chains :
            task[ch] = "finished" =>
                /\ handles'[ch] = handles[ch] /\ task'[ch] = task[ch]
                /\ gen'[ch] = gen[ch] /\ deferred'[ch] = deferred[ch]]_vars
    /\ [][prodVars' = prodVars =>
            \A ch \in Chains :
                /\ (ENABLED TimerFires(ch))' = ENABLED TimerFires(ch)
                /\ (ENABLED ForAwait(ch))' = ENABLED ForAwait(ch)]_vars

C7_Witness ==
    /\ task[1] = "finished"
    /\ Len(ItemsFrom(1, 1)) = 5
    /\ cancelled[1]
    /\ \E k \in DOMAIN walks[1] : walks[1][k].aborted /\ walks[1][k].h = 2

\* C8: the items of a consumer are a prefix of the items settled so far in the
\* chain its last effect ran on (none without a chain), and of two consumers
\* of one chain the items of one are a prefix of the items of the other.
C8_Ordering ==
    /\ \A c \in Consumers :
          /\ effectDep[c] \in {Undef, NoEffect} => streamState[c].chunks = <<>>
          /\ \A ch \in Chains :
                effectDep[c] = HeadOf(ch) =>
                    /\ IsPrefix(streamState[c].chunks, ItemsFrom(ch, 1))
                    /\ IsPrefix(streamState[c].chunks, Numerals)
    /\ \A c1, c2 \in Consumers :
          (effectDep[c1] = effectDep[c2]) =>
              \/ IsPrefix(streamState[c1].chunks, streamState[c2].chunks)
              \/ IsPrefix(streamState[c2].chunks, streamState[c1].chunks)

C8_Witness ==
    \E c1, c2 \in Consumers, ch \in Chains :
        /\ Attached(c1, ch) /\ Attached(c2, ch)
        /\ Len(streamState[c1].chunks) = 2
        /\ Len(streamState[c2].chunks) = 4
        /\ Len(ItemsFrom(ch, 1)) = 5

\* C9: no promise of a chain is resolved more than once, and the outcome of a
\* settled promise never changes.
C9_WriteOnce ==
    [][\A ch \in Chains : \A k \in DOMAIN handles[ch] :
          /\ resolves'[ch][k] <= 1
          /\ handles[ch][k] # Pending => handles'[ch][k] = handles[ch][k]]_vars

C9_Witness ==
    \E ch \in Chains :
        /\ task[ch] = "finished"
        /\ Len(handles[ch]) = 3
        /\ handles[ch][3].type = "error"
        /\ \A k \in DOMAIN handles[ch] : resolves[ch][k] = 1

\* C10: while the walk of the last effect awaits promise h of its chain, the
\* state of the hook is what that walk alone has built: streaming, with the
\* items of the chain before h.
C10_StateOfNewWalkOnly ==
    \A c \in Consumers : \A k \in DOMAIN walks[c] :
        ~walks[c][k].aborted =>
            /\ streamState[c].state = "streaming"
            /\ Len(streamState[c].chunks) = walks[c][k].h - 1
            /\ IsPrefix(streamState[c].chunks, ItemsFrom(walks[c][k].chain, 1))

Terminal == {"done", "error"}

\* The items t are the items s, or s and one more item at the end.
SameOrOneMore(s, t) ==
    \/ t = s
    \/ Len(t) = Len(s) + 1 /\ SubSeq(t, 1, Len(s)) = s

\* C11: in the one walk of a consumer that was never cancelled, a state with
\* phase done or error is set once and is the last the walk sets (the walk has
\* returned and the state changes no more), a walk that has read a link and
\* has returned has set one, and every state the walk sets keeps the items or
\* adds one at the end.
C11_SingleTerminalEmission ==
    /\ [][\A c \in Consumers :
            ~cancelled'[c] =>
                /\ streamState'[c].state \in Terminal => ~Live(walks'[c])
                /\ effectDep'[c] # effectDep[c] =>
                      Len(streamState'[c].chunks) <= 1
                /\ effectDep'[c] = effectDep[c] =>
                      /\ streamState[c].state \in Terminal =>
                            streamState'[c] = streamState[c]
                      /\ SameOrOneMore(streamState[c].chunks,
                                       streamState'[c].chunks)]_vars
    /\ [](\A c \in Consumers, ch \in Chains :
            (Finished(c, ch) /\ ~cancelled[c] /\ handles[ch][1] # Undefined) =>
                streamState[c].state \in Terminal)

C11_Witness ==
    \E c \in Consumers :
        /\ Finished(c, 1) /\ ~cancelled[c]
        /\ Len(handles[1]) = 3 /\ handles[1][3] = ErrorLink("thrown")
        /\ streamState[c] =
              [state |-> "error", chunks |-> <<"1", "2">>, error |-> "thrown"]

\* A state of the hook without an error.
Snapshot(state, chunks) == [state |-> state, chunks |-> chunks, error |-> NoError]

\* The generator of chain ch never reaches its throw.
EndsNormally(ch) == ~gen[ch].throwError \/ gen[ch].words <= FailIndex

\* Component 1, mounted before the chain has a settled head and never
\* cancelled, passes through the states seq one after the other: it starts in
\* the first, every change of its state is from one state of seq to the next,
\* and its walk returns in the last.
PassesThrough(seq) ==
    /\ component[1] = "mounted" => \E j \in DOMAIN seq : streamState[1] = seq[j]
    /\ Finished(1, 1) => streamState[1] = seq[Len(seq)]

StepsThrough(seq) ==
    \/ streamState'[1] = streamState[1]
    \/ \E j \in 1..(Len(seq) - 1) :
          streamState[1] = seq[j] /\ streamState'[1] = seq[j + 1]

\* streaming with the first k items, for k = 1..m.
Streamings(m) ==
    IF m = 0 THEN <<>> ELSE [k \in 1..m |-> Snapshot("streaming", Expected(k))]

\* idle, streaming with the first k items for k = 1..n-1, done with n items.
ClaimedSnapshots(n) ==
    <<Snapshot("idle", <<>>)>> \o Streamings(n - 1)
        \o <<Snapshot("done", Expected(n))>>

\* idle, streaming with the first k items for k = 1..n, done with n items.
WalkedSnapshots(n) ==
    <<Snapshot("idle", <<>>)>> \o Streamings(n)
        \o <<Snapshot("done", Expected(n))>>

\* C12 as stated: on a chain of n >= 1 items that ends normally, the consumer
\* mounted before the head settled and never cancelled shows idle, then
\* streaming with the first k items for k = 1..n-1, then done with the n items,
\* and no other state in between.
C12_ScenarioAAsStated ==
    /\ [](task[1] # "unstarted" /\ EndsNormally(1) =>
            PassesThrough(ClaimedSnapshots(gen[1].words)))
    /\ [][(task[1] # "unstarted" /\ EndsNormally(1)) =>
            StepsThrough(ClaimedSnapshots(gen[1].words))]_vars

\* C12 amended: the same consumer shows idle, then streaming with the first k
\* items for k = 1..n (the last item too is first shown as streaming), then
\* done with the n items, and no other state in between.
C12_ScenarioA ==
    /\ [](component[1] = "mounted" /\ task[1] = "unstarted" =>
            streamState[1] = Snapshot("idle", <<>>))
    /\ [](task[1] # "unstarted" /\ EndsNormally(1) =>
            PassesThrough(WalkedSnapshots(gen[1].words)))
    /\ [][(task[1] # "unstarted" /\ EndsNormally(1)) =>
            StepsThrough(WalkedSnapshots(gen[1].words))]_vars

C12_Witness ==
    /\ Finished(1, 1) /\ ~cancelled[1]
    /\ gen[1].words = 3 /\ ~gen[1].throwError
    /\ streamState[1] = Snapshot("done", <<"1", "2", "3">>)

\* C13: a walk that is not aborted and reads an error link sets phase error
\* with the cause of that link and leaves the items as they are (none when the
\* error link is the head the effect starts on); for a consumer never
\* cancelled the phase before was streaming; and with 10 words and throwError
\* the walk returns in error with items "1".."4" and "Error at 5th word".
C13_FailureKeepsItems ==
    /\ [][\A c \in Consumers, k \in 1..MaxWalks :
            (/\ k \in DOMAIN walks[c] /\ ~walks[c][k].aborted
             /\ handles[walks[c][k].chain][walks[c][k].h].type = "error"
             /\ Resume(c, k)) =>
                /\ streamState'[c] =
                      [state |-> "error", chunks |-> streamState[c].chunks,
                       error |-> handles[walks[c][k].chain][walks[c][k].h].error]
                /\ ~cancelled[c] => streamState[c].state = "streaming"]_vars
    /\ [][\A c \in Consumers :
            (RunEffect(c) /\ Link(promiseStream[c]).type = "error") =>
                streamState'[c] =
                   [state |-> "error", chunks |-> <<>>,
                    error |-> Link(promiseStream[c]).error]]_vars
    /\ [](\A c \in Consumers, ch \in Chains :
            (/\ Finished(c, ch) /\ ~cancelled[c]
             /\ gen[ch].words = 10 /\ gen[ch].throwError) =>
                streamState[c] =
                   [state |-> "error", chunks |-> <<"1", "2", "3", "4">>,
                    error |-> "Error at 5th word"])

C13_Witness ==
    \E c \in Consumers :
        /\ Finished(c, 1) /\ ~cancelled[c]
        /\ gen[1].words = 10 /\ gen[1].throwError
        /\ formData[1].words = Null
        /\ streamState[c].state = "error"
        /\ streamState[c].chunks = <<"1", "2", "3", "4">>
        /\ streamState[c].error = ErrorAt5thWord

\* The number of values a generator yields, and the chain that
\* createPromiseStream makes of it: a value link for each value, then undefined
\* or, when the generator throws, an error link.
YieldCount(g) == IF g.throwError /\ g.failAt < g.words THEN g.failAt ELSE g.words

ChainOf(g) ==
    [k \in 1..(YieldCount(g) + 1) |->
        IF k <= YieldCount(g) THEN ValueLink(String(k), k + 1)
        ELSE IF g.throwError /\ g.failAt < g.words THEN ErrorLink(g.error)
        ELSE Undefined]

\* Some walk of some component has its aborted flag set by this step.
SetsAborted ==
    \E c \in Consumers : \E k \in DOMAIN walks[c] :
        /\ ~walks[c][k].aborted
        /\ k \in DOMAIN walks'[c] /\ walks'[c][k].aborted

\* C14: a step that sets the aborted flag of a walk leaves the promises of
\* every chain, the Deferred the task holds and the generator where they were;
\* and the chain of a task that has ended is the one its generator determines,
\* whether and whenever walks were aborted.
C14_CancellationFrame ==
    /\ [][SetsAborted =>
            /\ handles' = handles /\ resolves' = resolves
            /\ deferred' = deferred /\ gen' = gen /\ task' = task]_vars
    /\ [](\A ch \in Chains :
            (task[ch] = "finished" /\ gen[ch].st = "done") =>
                handles[ch] = ChainOf(gen[ch]))

C14_Witness ==
    /\ cancelled[1]
    /\ \E k \in DOMAIN walks[1] :
          walks[1][k].aborted /\ walks[1][k].chain = 1 /\ walks[1][k].h = 3
    /\ task[1] = "finished" /\ gen[1].st = "done"
    /\ handles[1] = ChainOf(gen[1])
    /\ Len(handles[1]) = 5 /\ handles[1][5].type = "error"

\* The phase that goes with the last promise of an ended chain.
PhaseOfSentinel(ch) ==
    IF handles[ch][Len(handles[ch])].type = "error" THEN "error" ELSE "done"

\* C15: a consumer given the head of a chain and never cancelled comes to the
\* terminal phase of the chain, done for undefined and error for an error
\* link, also when the head itself is undefined or an error link: it gets
\* there, and it is there once the task has ended and no walk is left.
C15_ReachesTerminalPhase ==
    /\ [](\A c \in Consumers, ch \in Chains :
            (Finished(c, ch) /\ ~cancelled[c] /\ task[ch] = "finished") =>
                streamState[c].state = PhaseOfSentinel(ch))
    /\ \A c \in Consumers, ch \in Chains :
          (component[c] = "mounted" /\ promiseStream[c] = HeadOf(ch)) ~>
              (\/ cancelled[c]
               \/ /\ task[ch] = "finished"
                  /\ streamState[c].state = PhaseOfSentinel(ch))

\* The inputs the claim names, by the text of the field.
DecimalDigits == {"0", "1", "2", "3", "4", "5", "6", "7", "8", "9"}

Letters == {"a", "x"}

IsDigits(t) == t # <<>> /\ \A i \in DOMAIN t : t[i] \in DecimalDigits

RECURSIVE DecValue(_)
DecValue(t) ==
    IF t = <<>> THEN 0
    ELSE 10 * DecValue(SubSeq(t, 1, Len(t) - 1)) + DigitValue[t[Len(t)]]

\* A numeral of a positive integer: "1", "10", "012".
PositiveInteger(t) == IsDigits(t) /\ DecValue(t) > 0

\* A numeral of zero or of a negative integer: "0", "-2".
NonPositiveInteger(t) ==
    \/ IsDigits(t) /\ DecValue(t) = 0
    \/ t # <<>> /\ Head(t) = "-" /\ IsDigits(Tail(t))

\* A numeral with a fraction that is not zero: "1.2", "0.1".
NonInteger(t) ==
    \E i \in DOMAIN t :
        /\ t[i] = "."
        /\ IsDigits(SubSeq(t, 1, i - 1))
        /\ IsDigits(SubSeq(t, i + 1, Len(t)))
        /\ DecValue(SubSeq(t, i + 1, Len(t))) > 0

\* No numeral: the empty text, or a text with a letter that is not a
\* hexadecimal literal.
NonNumeric(t) ==
    \/ t = <<>>
    \/ /\ \E i \in DOMAIN t : t[i] \in Letters
       /\ ~(Len(t) >= 2 /\ t[1] = "0" /\ t[2] = "x")

\* The number the claim gives a field: its value when it is a positive
\* integer, the default when it is missing, not positive, not an integer or
\* not numeric; TRUE for the other texts, of which the claim says nothing.
NormalisedAsClaimed(field, n, default) ==
    IF ~field.present THEN n = default
    ELSE IF PositiveInteger(field.text) THEN n = DecValue(field.text)
    ELSE IF \/ NonPositiveInteger(field.text)
            \/ NonInteger(field.text)
            \/ NonNumeric(field.text)
      THEN n = default
    ELSE TRUE

\* C16: the generator of a request runs to the number of words of the words
\* field when that is a positive integer and to 10 when the field is missing,
\* not positive, not an integer or not numeric, and that many items are
\* produced (throwError apart); the delay follows the same rule with 400.
C16_InputNormalisation ==
    \A ch \in Chains :
        task[ch] # "unstarted" =>
            /\ NormalisedAsClaimed(formData[ch].words, gen[ch].words, 10)
            /\ NormalisedAsClaimed(formData[ch].delay, delay[ch], 400)
            /\ (task[ch] = "finished" /\ ~gen[ch].throwError) =>
                  Len(handles[ch]) = gen[ch].words + 1

\* C17: the promises of a chain are, one after the other, the links of the
\* values its generator has yielded, the last one pending until the task ends;
\* the chain of an ended task is those value links and then undefined when
\* the generator returned, an error link with what was thrown when it threw,
\* and that error link alone when the factory threw; and once the task has
\* ended no promise is added and none is resolved.
C17_ChainIsImageOfGenerator ==
    /\ [](\A ch \in Chains :
            (task[ch] # "unstarted" /\ gen[ch].st # "none") =>
                /\ Len(handles[ch]) <= Len(ChainOf(gen[ch]))
                /\ \A k \in DOMAIN handles[ch] :
                      \/ handles[ch][k] = ChainOf(gen[ch])[k]
                      \/ /\ k = Len(handles[ch]) /\ task[ch] # "finished"
                         /\ handles[ch][k] = Pending
                /\ task[ch] = "finished" => handles[ch] = ChainOf(gen[ch]))
    /\ [](\A ch \in Chains :
            (task[ch] = "finished" /\ gen[ch].st = "none") =>
                handles[ch] = <<ErrorLink("thrown")>>)
    /\ [][\A ch \in Chains :
            task[ch] = "finished" =>
                handles'[ch] = handles[ch] /\ resolves'[ch] = resolves[ch]]_vars

C17_Witness ==
    /\ task[1] = "finished"
    /\ gen[1].throwError /\ gen[1].failAt = 2 /\ gen[1].words = 4
    /\ handles[1] =
          <<ValueLink("1", 2), ValueLink("2", 3), ErrorLink("thrown")>>
    /\ resolves[1] = <<1, 1, 1>>

\* What the hook of component c has read: nothing, when no effect has run on
\* a link; an undefined or an error link, when some chain holds one.
NothingRead(c) ==
    effectDep[c] = NoEffect \/ Link(effectDep[c]).type = "undefined"

EndRead == \E ch \in Chains : \E k \in DOMAIN handles[ch] : handles[ch][k] = Undefined

FailureRead(e) ==
    \E ch \in Chains : \E k \in DOMAIN handles[ch] : handles[ch][k] = ErrorLink(e)

\* The clauses of C18 for the phases idle, done and error: idle goes with no
\* items and nothing read; done with an undefined that was read, which for a
\* consumer never cancelled is the end of its chain, all its items held;
\* error with an error link that was read, the cause being its own.
IdleDoneErrorConsistent(c) ==
    /\ streamState[c].state = "idle" =>
          streamState[c].chunks = <<>> /\ NothingRead(c)
    /\ streamState[c].state = "done" =>
          /\ EndRead
          /\ ~cancelled[c] =>
                \E ch \in Chains :
                    /\ Finished(c, ch) /\ task[ch] = "finished"
                    /\ streamState[c].chunks = ItemsFrom(ch, 1)
    /\ streamState[c].state = "error" => FailureRead(streamState[c].error)

\* C18 as stated: besides, phase streaming goes with at least one item and a
\* walk that has read no undefined and no error link (it awaits a promise).
C18_PhaseItemsAsStated ==
    \A c \in Consumers :
        /\ IdleDoneErrorConsistent(c)
        /\ streamState[c].state = "streaming" =>
              streamState[c].chunks # <<>> /\ Live(walks[c])

\* C18 amended: phase streaming goes with a value link that was read and no
\* undefined or error link read; the items are empty in the state the hook is
\* mounted with on a value link, before its effect has run, and hold at
\* least one item from the first turn of the walk on.
C18_PhaseItemsConsistent ==
    \A c \in Consumers :
        /\ IdleDoneErrorConsistent(c)
        /\ streamState[c].state = "streaming" =>
              \/ /\ effectDep[c] = NoEffect /\ walks[c] = <<>>
                 /\ streamState[c].chunks = <<>>
                 /\ \E ch \in Chains :
                       handles[ch] # <<>> /\ handles[ch][1].type = "value"
              \/ /\ effectDep[c] # NoEffect /\ Live(walks[c])
                 /\ streamState[c].chunks # <<>>

C18_Witness ==
    /\ component[1] = "mounted" /\ effectDep[1] = NoEffect
    /\ promiseStream[1] = HeadOf(1) /\ handles[1][1].type = "value"
    /\ streamState[1] = Snapshot("streaming", <<>>)

\* C19: a walk whose aborted flag was set while it awaited a promise leaves
\* the state as it is when that promise has settled to an error link: the
\* phase does not become error and no error is set by it; and a component
\* whose last effect ran without data, every walk before it aborted, never
\* has phase error nor an error.
C19_CancelledSeesNoFailure ==
    /\ [][\A c \in Consumers, k \in 1..MaxWalks :
            (/\ k \in DOMAIN walks[c] /\ walks[c][k].aborted
             /\ handles[walks[c][k].chain][walks[c][k].h].type = "error"
             /\ Resume(c, k)) =>
                streamState'[c] = streamState[c]]_vars
    /\ [](\A c \in Consumers :
            effectDep[c] = Undef =>
                streamState[c].state # "error" /\ streamState[c].error = NoError)

C19_Witness ==
    /\ cancelled[1] /\ effectDep[1] = Undef
    /\ \E k \in DOMAIN walks[1] :
          /\ walks[1][k].aborted /\ walks[1][k].chain = 1 /\ walks[1][k].h = 5
          /\ handles[1][5] = ErrorLink(ErrorAt5thWord)
    /\ streamState[1] = Snapshot("idle", <<>>)

\* The promises of a chain that are not settled.
Unsettled(ch) == {k \in DOMAIN handles[ch] : handles[ch][k] = Pending}

\* C20: while its task runs a chain has one unsettled promise, the last one,
\* which is the one of the Deferred the task holds; once the task has ended
\* it has none, and every walk that awaits a promise of it can resume.
C20_SingleLiveEdge ==
    \A ch \in Chains :
        /\ Cardinality(Unsettled(ch)) <= 1
        /\ \A k \in Unsettled(ch) : k = Len(handles[ch]) /\ k = deferred[ch]
        /\ task[ch] = "awaiting" => Unsettled(ch) = {deferred[ch]}
        /\ task[ch] = "finished" =>
              /\ Unsettled(ch) = {}
              /\ \A c \in Consumers : \A k \in DOMAIN walks[c] :
                    walks[c][k].chain = ch =>
                        /\ walks[c][k].h \in DOMAIN handles[ch]
                        /\ ENABLED Resume(c, k)

C20_Witness ==
    /\ task[1] = "finished"
    /\ Len(handles[1]) = 4 /\ handles[1][4] = Undefined
    /\ \E k \in DOMAIN walks[1] :
          walks[1][k].chain = 1 /\ walks[1][k].h = 2 /\ ~walks[1][k].aborted

====
